---------------------------- MODULE Spec2Model ----------------------------
(***************************************************************************)
(* A model of the awareness server (mcp-servers/awareness-mcp/server.py):  *)
(* the five tables of the store it works on (semantic_memory,               *)
(* episodic_memory, goals, tasks, working_memory) and its handlers.         *)
(*                                                                          *)
(* Numbers in [0,1] (severity, significance, confidence, success_score)     *)
(* are kept in tenths: 0.3 is 3, 0.6 is 6, 1.0 is 10.                       *)
(***************************************************************************)
EXTENDS Integers, Sequences, FiniteSets, TLC

VARIABLES
    semantic_memory,   \* set of rows [concept, definition, confidence]
    episodic_memory,   \* sequence of rows [id, event_type, content, significance, created_at], in insertion order
    goals,             \* set of rows [id, name, description, status]
    tasks,             \* set of rows [id, title, priority, status, goal_id]
    working_memory,    \* set of rows [context_key, content, priority, expires_at]
    now,               \* the wall clock, in ticks
    ret,               \* the last call: its op, its arguments and what it returned
    last_set,          \* history: per identity concept, the last non-empty value set_agent_identity was given
    call,              \* the call that is running statement by statement, if one is
    connections        \* how many connections to the database are open

vars == <<semantic_memory, episodic_memory, goals, tasks, working_memory, now, ret, last_set,
          call, connections>>

-----------------------------------------------------------------------------
(* Python values *)

\* Python's None, kept apart from the empty string
None == "<None>"

\* the truth value of `if x:` for x a str or None
Truthy(x) == x # None /\ x # ""

\* the larger of two integers
Max(a, b) == IF a >= b THEN a ELSE b

\* the range of a sequence
Range(s) == {s[i] : i \in DOMAIN s}

-----------------------------------------------------------------------------
(* SELF-AWARENESS: the identity store *)

IdentityConcepts ==
    {"agent_name", "agent_purpose", "agent_capabilities", "agent_limitations", "agent_personality"}

\* the defaults table of get_agent_identity
defaults ==
    [agent_name         |-> "Agentic Assistant",
     agent_purpose      |-> "Help user accomplish their goals effectively",
     agent_capabilities |-> "Memory, goal tracking, learning, self-improvement",
     agent_limitations  |-> "Cannot access internet, cannot execute code without approval",
     agent_personality  |-> "Helpful, transparent, collaborative"]

\* get_agent_identity without the defaults loop: only what storage holds
get_agent_identity_NoDefaults(sm) ==
    LET rows == {r \in sm : r.concept \in IdentityConcepts}
    IN  [k \in {r.concept : r \in rows} |-> (CHOOSE r \in rows : r.concept = k).definition]

\* get_agent_identity: the SELECT ... WHERE concept IN (...), the dict built
\* from its rows, then the defaults for the keys the dict lacks
get_agent_identity(sm) ==
    LET rows     == {r \in sm : r.concept \in IdentityConcepts}
        identity == [k \in {r.concept : r \in rows} |->
                        (CHOOSE r \in rows : r.concept = k).definition]
    IN  [k \in (DOMAIN identity) \cup (DOMAIN defaults) |->
            IF k \in DOMAIN identity THEN identity[k] ELSE defaults[k]]

\* the rows an INSERT OR REPLACE of `row` conflicts with: concept is the
\* table's unique key
Conflicts(sm, row) == {r \in sm : r.concept = row.concept}

\* a plain INSERT: the row is added and nothing is replaced
InsertOrReplace_Duplicating(sm, concept, definition) ==
    sm \cup {[concept |-> concept, definition |-> definition, confidence |-> 10]}

\* INSERT OR REPLACE INTO semantic_memory (concept, definition, confidence)
\* VALUES (?, ?, 1.0)
InsertOrReplace(sm, concept, definition) ==
    LET row == [concept |-> concept, definition |-> definition, confidence |-> 10]
    IN  (sm \ Conflicts(sm, row)) \cup {row}

\* the parameters of set_agent_identity, in the order of its if statements,
\* and the concept each is stored under
Params == <<"name", "purpose", "capabilities", "limitations", "personality">>

ConceptOf ==
    [name         |-> "agent_name",
     purpose      |-> "agent_purpose",
     capabilities |-> "agent_capabilities",
     limitations  |-> "agent_limitations",
     personality  |-> "agent_personality"]

\* the store after the first n if statements of set_agent_identity
RECURSIVE UpsertFirst(_, _, _)
UpsertFirst(sm, args, n) ==
    IF n = 0 THEN sm
    ELSE LET before == UpsertFirst(sm, args, n - 1)
             p      == Params[n]
         IN  IF Truthy(args[p]) THEN InsertOrReplace(before, ConceptOf[p], args[p])
             ELSE before

\* the `updates` list after the first n if statements
RECURSIVE UpdatesFirst(_, _)
UpdatesFirst(args, n) ==
    IF n = 0 THEN <<>>
    ELSE LET p == Params[n]
         IN  IF Truthy(args[p]) THEN Append(UpdatesFirst(args, n - 1), p)
             ELSE UpdatesFirst(args, n - 1)

\* set_agent_identity writing every parameter that is not None, the empty
\* string included
set_agent_identity_ClearsEmpty(sm, args) ==
    LET F[n \in 0..Len(Params)] ==
            IF n = 0 THEN sm
            ELSE IF args[Params[n]] # None
                 THEN InsertOrReplace(F[n - 1], ConceptOf[Params[n]], args[Params[n]])
                 ELSE F[n - 1]
    IN  F[Len(Params)]

\* set_agent_identity: semantic_memory after the call's commit
set_agent_identity(sm, args) == UpsertFirst(sm, args, Len(Params))

\* set_agent_identity: the "updated" list it returns
set_agent_identity_updated(args) == UpdatesFirst(args, Len(Params))

-----------------------------------------------------------------------------
(* The episodic log *)

\* json.dumps of a payload, and json.loads of what it produced
json_dumps(v) == <<"json", v>>

json_loads(s) == s[2]

\* the id the storage gives a new row of episodic_memory: one more than the
\* largest id in the table
NextRowId(log) ==
    LET F[n \in 0..Len(log)] == IF n = 0 THEN 0 ELSE Max(F[n - 1], log[n].id)
    IN  F[Len(log)] + 1

\* an INSERT that overwrites the newest row of the same event_type when
\* there is one
InsertEvent_Overwriting(log, event_type, content, significance, t) ==
    LET row  == [id |-> NextRowId(log), event_type |-> event_type, content |-> content,
                 significance |-> significance, created_at |-> t]
        same == {i \in DOMAIN log : log[i].event_type = event_type}
    IN  IF same = {} THEN Append(log, row)
        ELSE LET i == CHOOSE j \in same : \A k \in same : k <= j
             IN  [log EXCEPT ![i] = [row EXCEPT !.id = log[i].id]]

\* INSERT INTO episodic_memory (event_type, content, significance) VALUES
\* (...): id and created_at are the table's defaults
InsertEvent(log, event_type, content, significance, t) ==
    Append(log, [id |-> NextRowId(log), event_type |-> event_type, content |-> content,
                 significance |-> significance, created_at |-> t])

\* cursor.lastrowid after an INSERT
lastrowid(log) == log[Len(log)].id

-----------------------------------------------------------------------------
(* SQL's ORDER BY ... DESC and LIMIT *)

\* every order of the rows S in which column col never increases: the order
\* of rows that tie on col is the engine's choice
RECURSIVE OrderByDesc(_, _)
OrderByDesc(S, col) ==
    IF S = {} THEN {<<>>}
    ELSE LET top == {r \in S : \A q \in S : r[col] >= q[col]}
         IN  UNION {{<<r>> \o s : s \in OrderByDesc(S \ {r}, col)} : r \in top}

\* every order of the rows S in which column col never decreases
RECURSIVE OrderByAsc(_, _)
OrderByAsc(S, col) ==
    IF S = {} THEN {<<>>}
    ELSE LET low == {r \in S : \A q \in S : r[col] <= q[col]}
         IN  UNION {{<<r>> \o s : s \in OrderByAsc(S \ {r}, col)} : r \in low}

\* LIMIT n of an ordered result
Limit(s, n) == IF Len(s) <= n THEN s ELSE SubSeq(s, 1, n)

\* LIMIT n of a result with no ORDER BY: any n of the rows
LimitAny(S, n) ==
    IF Cardinality(S) <= n THEN {S}
    ELSE {T \in SUBSET S : Cardinality(T) = n}

-----------------------------------------------------------------------------
(* Knowledge gaps *)

\* the policy constant of record_knowledge_gap's action hint (0.7)
ResearchThreshold == 7

\* record_knowledge_gap: the log after its INSERT and commit
record_knowledge_gap(log, domain, description, severity, t) ==
    InsertEvent(log, "knowledge_gap",
                json_dumps([domain |-> domain, description |-> description]), severity, t)

\* record_knowledge_gap: what it returns, given the log it left
record_knowledge_gap_result(log, domain, severity) ==
    [op |-> "record_knowledge_gap", gap_id |-> lastrowid(log), domain |-> domain,
     severity |-> severity,
     action |-> IF severity > ResearchThreshold THEN "research_recommended" ELSE "noted"]

\* the dict get_knowledge_gaps builds of one row
GapDict(row) ==
    [id |-> row.id, domain |-> json_loads(row.content).domain,
     description |-> json_loads(row.content).description,
     severity |-> row.significance, recorded_at |-> row.created_at]

\* the rows of get_knowledge_gaps' SELECT, before ORDER BY, with > for >=
GapRows_Strict(log, min_severity) ==
    {r \in Range(log) : r.event_type = "knowledge_gap" /\ r.significance > min_severity}

\* the rows of get_knowledge_gaps' SELECT, before ORDER BY
GapRows(log, min_severity) ==
    {r \in Range(log) : r.event_type = "knowledge_gap" /\ r.significance >= min_severity}

\* get_knowledge_gaps with ORDER BY significance ASC
get_knowledge_gaps_Ascending(log, min_severity) ==
    {[i \in DOMAIN s |-> GapDict(s[i])] : s \in OrderByAsc(GapRows(log, min_severity), "significance")}

\* get_knowledge_gaps: the lists it can return
get_knowledge_gaps(log, min_severity) ==
    {[i \in DOMAIN s |-> GapDict(s[i])] : s \in OrderByDesc(GapRows(log, min_severity), "significance")}

-----------------------------------------------------------------------------
(* SITUATIONAL AWARENESS: get_current_context *)

\* the LIMITs of get_current_context's five SELECTs
GoalsLimit == 5

PendingLimit == 10

InProgressLimit == 5

EventsLimit == 5

ContextLimit == 10

\* the significance an event must exceed to count as significant (0.6)
SignificanceThreshold == 6

\* datetime.isoformat: the fields of a timestamp, most significant first,
\* each of a fixed width
isoformat(t) == <<t \div 10, t % 10>>

\* SQL's > on two texts: the first place where they differ decides, and a
\* proper prefix is the smaller
RECURSIVE TextGreater(_, _)
TextGreater(a, b) ==
    IF a = <<>> THEN FALSE
    ELSE IF b = <<>> THEN TRUE
    ELSE IF Head(a) # Head(b) THEN Head(a) > Head(b)
    ELSE TextGreater(Tail(a), Tail(b))

\* SELECT id, name, description FROM goals WHERE status = 'active'
ActiveGoalRows(gs) == {g \in gs : g.status = "active"}

\* tasks LEFT JOIN goals: a task with no goal is kept, with no goal name
TaskJoinRows_LeftJoin(ts, gs, status) ==
    {[id |-> t.id, title |-> t.title, priority |-> t.priority, goal |-> g.name] :
        <<t, g>> \in {p \in ts \X gs : p[1].goal_id = p[2].id /\ p[1].status = status}}
    \cup
    {[id |-> t.id, title |-> t.title, priority |-> t.priority, goal |-> None] :
        t \in {u \in ts : u.status = status /\ ~(\E g \in gs : g.id = u.goal_id)}}

\* FROM tasks t JOIN goals g ON t.goal_id = g.id WHERE t.status = ?
TaskJoinRows(ts, gs, status) ==
    {[id |-> p[1].id, title |-> p[1].title, priority |-> p[1].priority, goal |-> p[2].name] :
        p \in {q \in ts \X gs : q[1].goal_id = q[2].id /\ q[1].status = status}}

\* the rows of the events SELECT with >= for >
SignificantRows_Inclusive(log) == {r \in Range(log) : r.significance >= SignificanceThreshold}

\* FROM episodic_memory WHERE significance > 0.6
SignificantRows(log) == {r \in Range(log) : r.significance > SignificanceThreshold}

\* the rows of the working_memory SELECT without its WHERE clause
LiveRows_Unfiltered(wm, t) == wm

\* FROM working_memory WHERE expires_at > ?, the parameter being
\* datetime.now().isoformat()
LiveRows(wm, t) == {w \in wm : TextGreater(w.expires_at, isoformat(t))}

\* the dicts get_current_context builds of its rows
GoalDict(r) == [id |-> r.id, name |-> r.name, description |-> r.description]

PendingDict(r) == [id |-> r.id, title |-> r.title, priority |-> r.priority, goal |-> r.goal]

InProgressDict(r) == [id |-> r.id, title |-> r.title, goal |-> r.goal]

EventDict(r) == [type |-> r.event_type, content |-> r.content, when |-> r.created_at]

ContextDict(r) == [key |-> r.context_key, content |-> r.content]

\* the list comprehensions over cursor.fetchall()
GoalDicts(s) == [i \in DOMAIN s |-> GoalDict(s[i])]

PendingDicts(s) == [i \in DOMAIN s |-> PendingDict(s[i])]

EventDicts(s) == [i \in DOMAIN s |-> EventDict(s[i])]

ContextDicts(s) == [i \in DOMAIN s |-> ContextDict(s[i])]

\* get_current_context: the values it can return. The in-progress SELECT has
\* a LIMIT and no ORDER BY: its result is kept as the set of its dicts.
\* recent_rows holds the rows behind recent_significant_events, whose dicts
\* drop the id and the significance.
get_current_context(gs, ts, log, wm, t) ==
    {[op                        |-> "get_current_context",
      active_goals              |-> GoalDicts(Limit(g, GoalsLimit)),
      pending_tasks             |-> PendingDicts(Limit(p, PendingLimit)),
      in_progress_tasks         |-> {InProgressDict(r) : r \in i},
      recent_significant_events |-> EventDicts(Limit(e, EventsLimit)),
      recent_rows               |-> Limit(e, EventsLimit),
      active_context            |-> ContextDicts(Limit(c, ContextLimit)),
      retrieved_at              |-> t] :
        <<g, p, i, e, c>> \in
            OrderByDesc(ActiveGoalRows(gs), "id")
            \X OrderByDesc(TaskJoinRows(ts, gs, "pending"), "priority")
            \X LimitAny(TaskJoinRows(ts, gs, "in_progress"), InProgressLimit)
            \X OrderByDesc(SignificantRows(log), "created_at")
            \X OrderByDesc(LiveRows(wm, t), "priority")}

-----------------------------------------------------------------------------
(* Sessions *)

\* the significance of a session_start (0.3) and of a session_end (0.5) event
SessionStartSignificance == 3

SessionEndSignificance == 5

\* the min_severity session_start asks get_knowledge_gaps for (0.5), and how
\* many gaps its briefing keeps
BriefingMinSeverity == 5

BriefingGaps == 5

\* get_environment_info: facts of the host, and the time
get_environment_info(t) ==
    [platform |-> "Linux", hostname |-> "host", current_time_utc |-> t, current_time_local |-> t]

\* session_start with its INSERT under `if gaps:`
session_start_OnlyWithGaps(log, gaps, t) ==
    IF gaps = <<>> THEN log
    ELSE InsertEvent(log, "session_start", json_dumps([timestamp |-> t]), SessionStartSignificance, t)

\* session_start: the log after its INSERT and commit; gaps is what
\* get_knowledge_gaps returned to it
session_start(log, gaps, t) ==
    InsertEvent(log, "session_start", json_dumps([timestamp |-> t]), SessionStartSignificance, t)

\* session_start: the briefing it returns
session_start_result(identity, context, environment, gaps, t) ==
    [op                 |-> "session_start",
     greeting           |-> <<"Session started. I am ", identity["agent_name"], ".">>,
     identity           |-> identity,
     current_context    |-> context,
     environment        |-> environment,
     knowledge_gaps     |-> Limit(gaps, BriefingGaps),
     session_started_at |-> t]

\* session_end: the log after its INSERT and commit
session_end(log, summary, t) ==
    InsertEvent(log, "session_end", json_dumps([summary |-> summary, timestamp |-> t]),
                SessionEndSignificance, t)

\* session_end: what it returns
session_end_result(summary) ==
    [op |-> "session_end", status |-> "session_ended", summary_saved |-> (summary # "")]

-----------------------------------------------------------------------------
(* ACTION TRACKING and the metacognitive state *)

\* the success_score from which an outcome is a successful pattern (0.8) and
\* up to which it is a failure pattern (0.3)
SuccessThreshold == 8

FailureThreshold == 3

\* record_action_outcome: the log after its INSERT and commit
record_action_outcome(log, action, expected, actual, success_score, context, t) ==
    InsertEvent(log, "action_outcome",
                json_dumps([action |-> action, expected |-> expected, actual |-> actual,
                            success_score |-> success_score, context |-> context,
                            timestamp |-> t]),
                success_score, t)

\* one that takes a score of exactly 0.8 for no successful pattern, and a
\* score of exactly 0.3 for no failure pattern
record_action_outcome_result_Strict(log, success_score) ==
    [op |-> "record_action_outcome", outcome_id |-> lastrowid(log),
     success_score |-> success_score,
     learning_recommendation |->
        IF success_score > SuccessThreshold
        THEN "Consider adding this to procedural memory as a successful pattern."
        ELSE IF success_score < FailureThreshold
        THEN "Consider recording this failure pattern to avoid in future."
        ELSE ""]

\* record_action_outcome: what it returns, given the log it left
record_action_outcome_result(log, success_score) ==
    [op |-> "record_action_outcome", outcome_id |-> lastrowid(log),
     success_score |-> success_score,
     learning_recommendation |->
        IF success_score >= SuccessThreshold
        THEN "Consider adding this to procedural memory as a successful pattern."
        ELSE IF success_score <= FailureThreshold
        THEN "Consider recording this failure pattern to avoid in future."
        ELSE ""]

\* the significance of a metacognitive_state event (0.4)
MetacognitiveSignificance == 4

\* record_metacognitive_state: the log after its INSERT and commit
record_metacognitive_state(log, confidence, cognitive_load, reasoning_quality, notes, t) ==
    InsertEvent(log, "metacognitive_state",
                json_dumps([confidence |-> confidence, cognitive_load |-> cognitive_load,
                            reasoning_quality |-> reasoning_quality, notes |-> notes,
                            timestamp |-> t]),
                MetacognitiveSignificance, t)

\* the thresholds of the three warnings: confidence < 0.4, cognitive_load >
\* 0.8, reasoning_quality < 0.5
LowConfidence == 4

HighLoad == 8

LowQuality == 5

\* one whose three thresholds are inclusive where the handler's are strict
record_metacognitive_state_result_Inclusive(confidence, cognitive_load, reasoning_quality) ==
    [op |-> "record_metacognitive_state", recorded |-> TRUE,
     warnings |->
        (IF confidence <= LowConfidence
         THEN <<"Low confidence - consider asking clarifying questions">> ELSE <<>>)
        \o (IF cognitive_load >= HighLoad
            THEN <<"High cognitive load - consider breaking task into smaller steps">> ELSE <<>>)
        \o (IF reasoning_quality <= LowQuality
            THEN <<"Reasoning quality concern - consider using sequential thinking">> ELSE <<>>)]

\* record_metacognitive_state: what it returns
record_metacognitive_state_result(confidence, cognitive_load, reasoning_quality) ==
    [op |-> "record_metacognitive_state", recorded |-> TRUE,
     warnings |->
        (IF confidence < LowConfidence
         THEN <<"Low confidence - consider asking clarifying questions">> ELSE <<>>)
        \o (IF cognitive_load > HighLoad
            THEN <<"High cognitive load - consider breaking task into smaller steps">> ELSE <<>>)
        \o (IF reasoning_quality < LowQuality
            THEN <<"Reasoning quality concern - consider using sequential thinking">> ELSE <<>>)]

-----------------------------------------------------------------------------
(* get_similar_past_actions. A text is the sequence of its characters. *)

\* how many of the newest action_outcome events are scanned
ScanLimit == 50

\* str.lower on one character, and on a text
LowerChar(c) == IF c = "A" THEN "a" ELSE IF c = "B" THEN "b" ELSE c

lower(text) == [i \in DOMAIN text |-> LowerChar(text[i])]

\* str.split(): the maximal runs of characters that are not whitespace
RECURSIVE split(_)
split(text) ==
    IF text = <<>> THEN <<>>
    ELSE IF Head(text) = " " THEN split(Tail(text))
    ELSE LET stop == IF \E i \in DOMAIN text : text[i] = " "
                     THEN (CHOOSE i \in DOMAIN text :
                              text[i] = " " /\ \A j \in 1..(i - 1) : text[j] # " ") - 1
                     ELSE Len(text)
         IN  <<SubSeq(text, 1, stop)>> \o split(SubSeq(text, stop + 1, Len(text)))

\* Python's `kw in action_text` on two texts
Contains(kw, text) ==
    \E i \in 0..(Len(text) - Len(kw)) : SubSeq(text, i + 1, i + Len(kw)) = kw

\* sum(1 for kw in keywords if kw in action_text)
Hits(keywords, text) == Cardinality({i \in DOMAIN keywords : Contains(keywords[i], text)})

\* relevance > 0.2, the relevance being num / den
Relevant(num, den) == 10 * num > 2 * den

\* the results list after the loop: the scored rows with relevance > 0.2,
\* in their order
KeepRelevant(s) ==
    LET F[n \in 0..Len(s)] ==
            IF n = 0 THEN <<>>
            ELSE IF Relevant(s[n].relevance.num, s[n].relevance.den)
                 THEN Append(F[n - 1], s[n]) ELSE F[n - 1]
    IN  F[Len(s)]

\* list.sort(key = relevance, reverse = True): stable, larger relevance first
\* (the relevances of one call share their denominator)
RECURSIVE SortByRelevance(_)
SortByRelevance(s) ==
    IF s = <<>> THEN <<>>
    ELSE LET best  == CHOOSE i \in DOMAIN s :
                         /\ \A j \in DOMAIN s : s[i].relevance.num >= s[j].relevance.num
                         /\ \A j \in 1..(i - 1) : s[j].relevance.num < s[i].relevance.num
             rest  == [j \in 1..(Len(s) - 1) |-> IF j < best THEN s[j] ELSE s[j + 1]]
         IN  <<s[best]>> \o SortByRelevance(rest)

\* results[:limit]
SliceTo(s, limit) ==
    IF limit >= 0 THEN Limit(s, limit)
    ELSE IF Len(s) + limit <= 0 THEN <<>>
    ELSE SubSeq(s, 1, Len(s) + limit)

\* FROM episodic_memory WHERE event_type = 'action_outcome'
OutcomeRows(log) == {r \in Range(log) : r.event_type = "action_outcome"}

\* the dict get_similar_past_actions builds of one row
ScoreDict(row, keywords) ==
    LET content == json_loads(row.content)
    IN  [action        |-> content.action,
         outcome       |-> content.actual,
         success_score |-> content.success_score,
         relevance     |-> [num |-> Hits(keywords, lower(content.action)),
                            den |-> Max(Len(keywords), 1)]]

\* get_similar_past_actions: the lists it can return
get_similar_past_actions(log, action_description, limit) ==
    LET keywords == split(lower(action_description))
    IN  {SliceTo(SortByRelevance(KeepRelevant(
                [i \in DOMAIN Limit(rows, ScanLimit) |-> ScoreDict(rows[i], keywords)])), limit) :
            rows \in OrderByDesc(OutcomeRows(log), "created_at")}

-----------------------------------------------------------------------------
(* The handlers as actions. Each sets ret to the call and its result. *)

\* the first tick of the clock in a behaviour; what a populated store holds
\* was written before it
StartTime == 10

\* the events a behaviour has appended to the log
NewEvents(log) == Cardinality({i \in DOMAIN log : log[i].created_at >= StartTime})

\* fewer than n of them
Room(n) == NewEvents(episodic_memory) < n

NoIdentity == [c \in IdentityConcepts |-> None]

\* no call is running statement by statement
Idle == [op |-> "none"]

GetAgentIdentity ==
    /\ ret' = [op |-> "get_agent_identity", value |-> get_agent_identity(semantic_memory)]
    /\ UNCHANGED <<call, connections, semantic_memory, episodic_memory, goals, tasks, working_memory, now, last_set>>

SetAgentIdentity(args) ==
    /\ semantic_memory' = set_agent_identity(semantic_memory, args)
    /\ ret' = [op |-> "set_agent_identity", args |-> args,
               updated |-> set_agent_identity_updated(args), status |-> "identity updated"]
    /\ last_set' = [c \in IdentityConcepts |->
                       IF \E p \in DOMAIN ConceptOf : ConceptOf[p] = c /\ Truthy(args[p])
                       THEN args[CHOOSE p \in DOMAIN ConceptOf : ConceptOf[p] = c]
                       ELSE last_set[c]]
    /\ UNCHANGED <<call, connections, episodic_memory, goals, tasks, working_memory, now>>

RecordKnowledgeGap(domain, description, severity) ==
    /\ episodic_memory' = record_knowledge_gap(episodic_memory, domain, description, severity, now)
    /\ ret' = record_knowledge_gap_result(episodic_memory', domain, severity)
    /\ UNCHANGED <<call, connections, semantic_memory, goals, tasks, working_memory, now, last_set>>

GetKnowledgeGaps(min_severity) ==
    /\ \E gaps \in get_knowledge_gaps(episodic_memory, min_severity) :
          ret' = [op |-> "get_knowledge_gaps", min_severity |-> min_severity, value |-> gaps]
    /\ UNCHANGED <<call, connections, semantic_memory, episodic_memory, goals, tasks, working_memory, now, last_set>>

\* a get_current_context that also deletes the entries of working_memory
\* that have expired
GetCurrentContext_Expiring ==
    /\ \E context \in get_current_context(goals, tasks, episodic_memory, working_memory, now) :
          ret' = context
    /\ working_memory' = LiveRows(working_memory, now)
    /\ UNCHANGED <<call, connections, semantic_memory, episodic_memory, goals, tasks, now, last_set>>

GetCurrentContext ==
    /\ \E context \in get_current_context(goals, tasks, episodic_memory, working_memory, now) :
          ret' = context
    /\ UNCHANGED <<call, connections, semantic_memory, episodic_memory, goals, tasks, working_memory, now, last_set>>

SessionStart ==
    /\ \E context \in get_current_context(goals, tasks, episodic_memory, working_memory, now),
          gaps \in get_knowledge_gaps(episodic_memory, BriefingMinSeverity) :
          /\ episodic_memory' = session_start(episodic_memory, gaps, now)
          /\ ret' = session_start_result(get_agent_identity(semantic_memory), context,
                                         get_environment_info(now), gaps, now)
    /\ UNCHANGED <<call, connections, semantic_memory, goals, tasks, working_memory, now, last_set>>

SessionEnd(summary) ==
    /\ episodic_memory' = session_end(episodic_memory, summary, now)
    /\ ret' = session_end_result(summary)
    /\ UNCHANGED <<call, connections, semantic_memory, goals, tasks, working_memory, now, last_set>>

GetEnvironmentInfo ==
    /\ ret' = [op |-> "get_environment_info", value |-> get_environment_info(now)]
    /\ UNCHANGED <<call, connections, semantic_memory, episodic_memory, goals, tasks, working_memory, now, last_set>>

RecordActionOutcome(action, expected, actual, success_score, context) ==
    /\ episodic_memory' = record_action_outcome(episodic_memory, action, expected, actual,
                                                success_score, context, now)
    /\ ret' = record_action_outcome_result(episodic_memory', success_score)
    /\ UNCHANGED <<call, connections, semantic_memory, goals, tasks, working_memory, now, last_set>>

GetSimilarPastActions(action_description, limit) ==
    /\ \E found \in get_similar_past_actions(episodic_memory, action_description, limit) :
          ret' = [op |-> "get_similar_past_actions", action_description |-> action_description,
                  limit |-> limit, value |-> found]
    /\ UNCHANGED <<call, connections, semantic_memory, episodic_memory, goals, tasks, working_memory, now, last_set>>

RecordMetacognitiveState(confidence, cognitive_load, reasoning_quality, notes) ==
    /\ episodic_memory' = record_metacognitive_state(episodic_memory, confidence, cognitive_load,
                                                     reasoning_quality, notes, now)
    /\ ret' = record_metacognitive_state_result(confidence, cognitive_load, reasoning_quality)
    /\ UNCHANGED <<call, connections, semantic_memory, goals, tasks, working_memory, now, last_set>>

\* what is not a call of the server: the clock, and the stores' other writers
Environment == [op |-> "environment"]

Tick ==
    /\ now' = now + 1
    /\ ret' = Environment
    /\ UNCHANGED <<call, connections, semantic_memory, episodic_memory, goals, tasks, working_memory, last_set>>

-----------------------------------------------------------------------------
(* The handlers statement by statement: what a call leaves behind when one
   of its statements raises, and what the other writers of the database can
   do between two of its statements. The clock stands still during a call. *)

\* the five tables as one value
Store ==
    [semantic_memory |-> semantic_memory, episodic_memory |-> episodic_memory, goals |-> goals,
     tasks |-> tasks, working_memory |-> working_memory]

\* the tables become those of db
SetStore(db) ==
    /\ semantic_memory' = db.semantic_memory
    /\ episodic_memory' = db.episodic_memory
    /\ goals' = db.goals
    /\ tasks' = db.tasks
    /\ working_memory' = db.working_memory

\* the running call has seen the tables db come into being
Observing(c, db) == IF c.op = "none" THEN c ELSE [c EXCEPT !.seen = @ \cup {db}]

\* the tables db with one write of a handler applied
Apply(db, write) ==
    IF write.table = "semantic_memory"
    THEN [db EXCEPT !.semantic_memory = InsertOrReplace(@, write.concept, write.definition)]
    ELSE [db EXCEPT !.episodic_memory =
                InsertEvent(@, write.event_type, write.content, write.significance, write.t)]

\* an execute that writes through to the database at once
execute_Autocommit(db, txn, write) == [db |-> Apply(db, write), txn |-> txn]

\* cursor.execute of an INSERT on a connection of sqlite3.connect(db_path):
\* the write joins the connection's open transaction txn, the database keeps
\* its tables
execute(db, txn, write) == [db |-> db, txn |-> Append(txn, write)]

\* conn.commit(): the database takes the writes of the transaction, in their
\* order
commit(db, txn) ==
    LET F[n \in 0..Len(txn)] == IF n = 0 THEN db ELSE Apply(F[n - 1], txn[n])
    IN  F[Len(txn)]

\* the statements of the handlers
GetDbStatement == [do |-> "get_db"]

ExecuteStatement(write) == [do |-> "execute", write |-> write]

SelectStatement(what, arg) == [do |-> "select", what |-> what, arg |-> arg]

\* the cursor.execute calls of set_agent_identity for its first n parameters
IdentityStatements(args, n) ==
    LET F[k \in 0..n] ==
            IF k = 0 THEN <<>>
            ELSE IF Truthy(args[Params[k]])
                 THEN Append(F[k - 1],
                             ExecuteStatement([table |-> "semantic_memory",
                                               concept |-> ConceptOf[Params[k]],
                                               definition |-> args[Params[k]]]))
                 ELSE F[k - 1]
    IN  F[n]

\* the INSERT of an event by a handler
InsertStatement(event_type, content, significance, t) ==
    ExecuteStatement([table |-> "episodic_memory", event_type |-> event_type,
                      content |-> content, significance |-> significance, t |-> t])

get_agent_identity_statements ==
    <<GetDbStatement, SelectStatement("identity", None), [do |-> "close"]>>

get_knowledge_gaps_statements(min_severity) ==
    <<GetDbStatement, SelectStatement("gaps", min_severity), [do |-> "json.loads"],
      [do |-> "close"]>>

get_current_context_statements ==
    <<GetDbStatement, SelectStatement("active_goals", None),
      SelectStatement("pending_tasks", None), SelectStatement("in_progress_tasks", None),
      SelectStatement("recent_significant_events", None),
      SelectStatement("active_context", None), [do |-> "close"]>>

\* the statements of a call of a handler at the time t, to its return
Statements(op, args, t) ==
    IF op = "set_agent_identity"
    THEN <<GetDbStatement>> \o IdentityStatements(args, Len(Params))
         \o <<[do |-> "commit"], [do |-> "close"], [do |-> "return"]>>
    ELSE IF op = "session_end"
    THEN <<GetDbStatement,
           InsertStatement("session_end", json_dumps([summary |-> args, timestamp |-> t]),
                           SessionEndSignificance, t),
           [do |-> "commit"], [do |-> "close"], [do |-> "return"]>>
    ELSE IF op = "get_knowledge_gaps"
    THEN get_knowledge_gaps_statements(args) \o <<[do |-> "return"]>>
    ELSE IF op = "get_current_context"
    THEN get_current_context_statements \o <<[do |-> "return"]>>
    ELSE \* session_start
         get_agent_identity_statements \o get_current_context_statements
         \o <<SelectStatement("environment", None)>>
         \o get_knowledge_gaps_statements(BriefingMinSeverity)
         \o <<GetDbStatement,
              InsertStatement("session_start", json_dumps([timestamp |-> t]),
                              SessionStartSignificance, t),
              [do |-> "commit"], [do |-> "close"], [do |-> "return"]>>

\* what a SELECT of a handler can fetch from the tables db at the time t,
\* as the part of the call's reads it fills
Fetch(statement, db, t) ==
    LET contexts == get_current_context(db.goals, db.tasks, db.episodic_memory,
                                        db.working_memory, t)
    IN  IF statement.what = "identity"
        THEN {[identity |-> get_agent_identity(db.semantic_memory)]}
        ELSE IF statement.what = "gaps"
        THEN {[gaps |-> g] : g \in get_knowledge_gaps(db.episodic_memory, statement.arg)}
        ELSE IF statement.what = "environment"
        THEN {[environment |-> get_environment_info(t)]}
        ELSE IF statement.what = "recent_significant_events"
        THEN {[recent_significant_events |-> c.recent_significant_events,
               recent_rows |-> c.recent_rows] : c \in contexts}
        ELSE {[x \in {statement.what} |-> c[statement.what]] : c \in contexts}

\* the dict get_current_context builds of what its five SELECTs fetched
ContextOf(reads, t) ==
    [op                        |-> "get_current_context",
     active_goals              |-> reads.active_goals,
     pending_tasks             |-> reads.pending_tasks,
     in_progress_tasks         |-> reads.in_progress_tasks,
     recent_significant_events |-> reads.recent_significant_events,
     recent_rows               |-> reads.recent_rows,
     active_context            |-> reads.active_context,
     retrieved_at              |-> t]

\* what the call c returns at the time t
Result(c, t) ==
    IF c.op = "set_agent_identity"
    THEN [op |-> "set_agent_identity", args |-> c.args,
          updated |-> set_agent_identity_updated(c.args), status |-> "identity updated"]
    ELSE IF c.op = "session_end" THEN session_end_result(c.args)
    ELSE IF c.op = "get_knowledge_gaps"
    THEN [op |-> "get_knowledge_gaps", min_severity |-> c.args, value |-> c.reads.gaps]
    ELSE IF c.op = "get_current_context" THEN ContextOf(c.reads, t)
    ELSE session_start_result(c.reads.identity, ContextOf(c.reads, t), c.reads.environment,
                              c.reads.gaps, t)

\* the statement the running call is at
Statement == call.program[call.pc]

\* a handler is called
BeginCall(op, args) ==
    /\ call = Idle
    /\ call' = [op |-> op, args |-> args, program |-> Statements(op, args, now), pc |-> 1,
                reads |-> <<>>, txn |-> <<>>, open |-> FALSE, before |-> Store, seen |-> {Store}]
    /\ UNCHANGED <<semantic_memory, episodic_memory, goals, tasks, working_memory, now, ret,
                   last_set, connections>>

\* conn = get_db()
GetDb ==
    /\ call # Idle /\ Statement.do = "get_db"
    /\ connections' = connections + 1
    /\ call' = [call EXCEPT !.pc = @ + 1, !.open = TRUE, !.txn = <<>>]
    /\ UNCHANGED <<semantic_memory, episodic_memory, goals, tasks, working_memory, now, ret,
                   last_set>>

\* cursor.execute of an INSERT
Execute ==
    /\ call # Idle /\ Statement.do = "execute"
    /\ LET done == execute(Store, call.txn, Statement.write)
       IN  /\ SetStore(done.db)
           /\ call' = [call EXCEPT !.pc = @ + 1, !.txn = done.txn, !.seen = @ \cup {done.db}]
    /\ UNCHANGED <<now, ret, last_set, connections>>

\* cursor.execute of a SELECT and the fetchall() of its rows
Select ==
    /\ call # Idle /\ Statement.do = "select"
    /\ \E fetched \in Fetch(Statement, Store, now) :
          call' = [call EXCEPT !.pc = @ + 1, !.reads = fetched @@ @]
    /\ UNCHANGED <<semantic_memory, episodic_memory, goals, tasks, working_memory, now, ret,
                   last_set, connections>>

\* json.loads of the content of the rows fetched
JsonLoads ==
    /\ call # Idle /\ Statement.do = "json.loads"
    /\ call' = [call EXCEPT !.pc = @ + 1]
    /\ UNCHANGED <<semantic_memory, episodic_memory, goals, tasks, working_memory, now, ret,
                   last_set, connections>>

\* conn.commit()
Commit ==
    /\ call # Idle /\ Statement.do = "commit"
    /\ LET db == commit(Store, call.txn)
       IN  /\ SetStore(db)
           /\ call' = [call EXCEPT !.pc = @ + 1, !.txn = <<>>, !.seen = @ \cup {db}]
    /\ last_set' = IF call.op = "set_agent_identity"
                   THEN [c \in IdentityConcepts |->
                            IF \E p \in DOMAIN ConceptOf : ConceptOf[p] = c /\ Truthy(call.args[p])
                            THEN call.args[CHOOSE p \in DOMAIN ConceptOf : ConceptOf[p] = c]
                            ELSE last_set[c]]
                   ELSE last_set
    /\ UNCHANGED <<now, ret, connections>>

\* conn.close()
Close ==
    /\ call # Idle /\ Statement.do = "close"
    /\ connections' = connections - 1
    /\ call' = [call EXCEPT !.pc = @ + 1, !.open = FALSE]
    /\ UNCHANGED <<semantic_memory, episodic_memory, goals, tasks, working_memory, now, ret,
                   last_set>>

\* return json.dumps(...)
Return ==
    /\ call # Idle /\ Statement.do = "return"
    /\ ret' = Result(call, now)
    /\ call' = Idle
    /\ UNCHANGED <<semantic_memory, episodic_memory, goals, tasks, working_memory, now,
                   last_set, connections>>

\* the statements that can raise: the database cannot be opened, a query or
\* the commit fails, a content is no JSON
Raising == {"get_db", "execute", "select", "json.loads", "commit"}

\* the statement raises: no handler catches it or has a finally, so the call
\* ends there, its connection as it is and its transaction never committed
Raise ==
    /\ call # Idle /\ Statement.do \in Raising
    /\ ret' = [op |-> call.op, error |-> Statement.do, pc |-> call.pc, open |-> call.open]
    /\ call' = Idle
    /\ UNCHANGED <<semantic_memory, episodic_memory, goals, tasks, working_memory, now,
                   last_set, connections>>

\* the runtime finalizes a connection that a call left open
Finalize ==
    /\ call = Idle /\ connections > 0
    /\ connections' = connections - 1
    /\ ret' = Environment
    /\ UNCHANGED <<semantic_memory, episodic_memory, goals, tasks, working_memory, now,
                   last_set, call>>

-----------------------------------------------------------------------------
(* The identity store on its own: SpecIdentity *)

\* facts the store may hold before the first call: written by the store's
\* other users, with confidences of their own
SeedFacts ==
    {[concept |-> "agent_name",        definition |-> "Seed", confidence |-> 5],
     [concept |-> "agent_limitations", definition |-> "Seed", confidence |-> 7],
     [concept |-> "user_timezone",     definition |-> "UTC",  confidence |-> 8]}

\* the arguments of set_agent_identity: each omitted, empty or a value; the
\* calls that give one or two of the five parameters, none, or all five
IdentityArgs ==
    {a \in [name         : {None, "", "Ada", "Bob"},
            purpose      : {None, "", "Ada"},
            capabilities : {None, "", "Ada"},
            limitations  : {None, "", "Ada"},
            personality  : {None, "", "Ada"}] :
        Cardinality({p \in DOMAIN a : a[p] # None}) \in {0, 1, 2, 5}}

InitIdentity ==
    /\ semantic_memory \in SUBSET SeedFacts
    /\ episodic_memory = <<>>
    /\ goals = {}
    /\ tasks = {}
    /\ working_memory = {}
    /\ now = StartTime
    /\ ret = Environment
    /\ last_set = NoIdentity
    /\ call = Idle
    /\ connections = 0

NextIdentity ==
    \/ GetAgentIdentity
    \/ \E args \in IdentityArgs : SetAgentIdentity(args)

SpecIdentity == InitIdentity /\ [][NextIdentity]_vars

\* the facts stored under a concept
FactsOf(sm, c) == {r \in sm : r.concept = c}

\* C1: whatever the store holds, get_agent_identity returns a mapping whose
\* keys are exactly the five identity concepts, with the stored definition
\* for a concept that is stored and the default for one that is not.
C1_FiveKeys ==
    ret.op = "get_agent_identity" =>
        /\ DOMAIN ret.value = IdentityConcepts
        /\ \A k \in IdentityConcepts :
              IF FactsOf(semantic_memory, k) # {}
              THEN \E r \in FactsOf(semantic_memory, k) : ret.value[k] = r.definition
              ELSE ret.value[k] = defaults[k]

\* get_agent_identity has answered from a store that holds some of the five
\* concepts and lacks others
C1_Witness ==
    /\ ret.op = "get_agent_identity"
    /\ ret.value["agent_name"] = "Bob"
    /\ ret.value["agent_limitations"] = "Seed"
    /\ FactsOf(semantic_memory, "agent_purpose") = {}
    /\ ret.value["agent_purpose"] = defaults["agent_purpose"]

\* C6: a call of set_agent_identity leaves the fact of every parameter that
\* is omitted or empty as it was (definition, confidence or absence), stores
\* every non-empty parameter as the only fact of its concept with
\* confidence 1.0, and leaves every other fact alone.
C6_OnlyNonEmptyFields ==
    [][ret'.op = "set_agent_identity" =>
          /\ \A p \in DOMAIN ConceptOf :
                IF ret'.args[p] = None \/ ret'.args[p] = ""
                THEN FactsOf(semantic_memory', ConceptOf[p]) = FactsOf(semantic_memory, ConceptOf[p])
                ELSE FactsOf(semantic_memory', ConceptOf[p]) =
                        {[concept |-> ConceptOf[p], definition |-> ret'.args[p], confidence |-> 10]}
          /\ {r \in semantic_memory' : r.concept \notin IdentityConcepts}
                = {r \in semantic_memory : r.concept \notin IdentityConcepts}]_vars

\* a call with an empty name, an omitted limitations and a non-empty purpose
\* has run on a store whose name and limitations facts have confidences
\* below 1.0, and they are still there
C6_Witness ==
    /\ ret.op = "set_agent_identity"
    /\ ret.args.name = "" /\ ret.args.limitations = None /\ ret.args.purpose = "Ada"
    /\ ret.updated = <<"purpose">>
    /\ [concept |-> "agent_name", definition |-> "Seed", confidence |-> 5] \in semantic_memory
    /\ [concept |-> "agent_limitations", definition |-> "Seed", confidence |-> 7] \in semantic_memory
    /\ [concept |-> "agent_purpose", definition |-> "Ada", confidence |-> 10] \in semantic_memory

\* C7: the store never holds two facts of one concept; get_agent_identity
\* returns, for each field, the last non-empty value set_agent_identity was
\* given for it; and repeating the set_agent_identity call just made leaves
\* the store as it is.
C7_UpsertReplaces ==
    /\ \A r, q \in semantic_memory : r.concept = q.concept => r = q
    /\ ret.op = "get_agent_identity" =>
          \A c \in IdentityConcepts : last_set[c] # None => ret.value[c] = last_set[c]
    /\ ret.op = "set_agent_identity" =>
          set_agent_identity(semantic_memory, ret.args) = semantic_memory

\* a name that was stored has been set again to another value, and
\* get_agent_identity returns the newer one, the store holding one name fact
C7_Witness ==
    /\ ret.op = "get_agent_identity"
    /\ last_set["agent_name"] = "Bob"
    /\ last_set["agent_purpose"] = "Ada"
    /\ ret.value["agent_name"] = "Bob"
    /\ Cardinality(FactsOf(semantic_memory, "agent_name")) = 1
    /\ [concept |-> "user_timezone", definition |-> "UTC", confidence |-> 8] \in semantic_memory

-----------------------------------------------------------------------------
(* Stores that are not empty when a behaviour starts *)

\* how many events, pending tasks, in-progress tasks and working-memory
\* entries a populated store starts with; SeedGaps is a shorter log
SeedEvents == 5

SeedGaps == 3

SeedPending == 9

SeedInProgress == 4

SeedEntries == 9

\* a log of n knowledge gaps recorded at the times 1..n, all significant
SeedLog(n) ==
    [i \in 1..n |->
        [id |-> i, event_type |-> "knowledge_gap",
         content |-> json_dumps([domain |-> "seed", description |-> "seed"]),
         significance |-> 7 + (i % 3), created_at |-> i]]

SeedGoals ==
    {[id |-> 1, name |-> "ship", description |-> "ship it", status |-> "active"],
     [id |-> 2, name |-> "learn", description |-> "learn it", status |-> "completed"]}

\* n pending and m in-progress tasks of goal 1, of distinct priorities
SeedTasks(n, m) ==
    {[id |-> i, title |-> "seed", priority |-> 10 + i, status |-> "pending", goal_id |-> 1] :
        i \in 1..n}
    \cup
    {[id |-> n + i, title |-> "seed", priority |-> 10 + i, status |-> "in_progress", goal_id |-> 1] :
        i \in 1..m}

\* n live entries of distinct priorities, expiring long after the clock
\* stops, and one of a higher priority that expired before it started
SeedContext(n) ==
    {[context_key |-> <<"seed", i>>, content |-> "seed", priority |-> 10 + i,
      expires_at |-> isoformat(90)] : i \in 1..n}
    \cup
    {[context_key |-> <<"seed", 0>>, content |-> "seed", priority |-> 40,
      expires_at |-> isoformat(5)]}

Empty ==
    [semantic_memory |-> {}, episodic_memory |-> <<>>, goals |-> {}, tasks |-> {},
     working_memory |-> {}]

Populated ==
    [semantic_memory |-> SeedFacts, episodic_memory |-> SeedLog(SeedGaps), goals |-> SeedGoals,
     tasks |-> SeedTasks(SeedPending, SeedInProgress), working_memory |-> SeedContext(SeedEntries)]

\* the state a behaviour starts in, given its store
InitFrom(store) ==
    /\ semantic_memory = store.semantic_memory
    /\ episodic_memory = store.episodic_memory
    /\ goals = store.goals
    /\ tasks = store.tasks
    /\ working_memory = store.working_memory
    /\ now = StartTime
    /\ ret = Environment
    /\ last_set = NoIdentity
    /\ call = Idle
    /\ connections = 0

-----------------------------------------------------------------------------
(* Every handler of the server: Spec *)

\* how many events a behaviour of Spec appends
MaxCoreEvents == 2

\* how far its clock runs
MaxCoreTime == 1

FixBug == <<"f", "i", "x", " ", "b", "u", "g">>

JustName == [name |-> "Ada", purpose |-> None, capabilities |-> None, limitations |-> None,
             personality |-> None]

Init == \E store \in {Empty, Populated} : InitFrom(store)

Next ==
    \/ GetAgentIdentity
    \/ SetAgentIdentity(JustName)
    \/ Room(MaxCoreEvents) /\ RecordKnowledgeGap("python", "the GIL", 8)
    \/ \E min_severity \in {0, 9} : GetKnowledgeGaps(min_severity)
    \/ GetCurrentContext
    \/ Room(MaxCoreEvents) /\ SessionStart
    \/ Room(MaxCoreEvents) /\ SessionEnd("done")
    \/ GetEnvironmentInfo
    \/ Room(MaxCoreEvents) /\ RecordActionOutcome(FixBug, "fixed", "fixed", 9, "")
    \/ GetSimilarPastActions(FixBug, 5)
    \/ Room(MaxCoreEvents) /\ RecordMetacognitiveState(2, 9, 3, "")
    \/ now < StartTime + MaxCoreTime /\ Tick

Spec == Init /\ [][Next]_vars


\* C2: whatever handler runs, the episodic log only grows at its end: every
\* event it held is still there, unchanged and in its place, and every
\* event added has an id larger than every id the log held.
C2_AppendOnly ==
    [][/\ Len(episodic_memory') >= Len(episodic_memory)
       /\ SubSeq(episodic_memory', 1, Len(episodic_memory)) = episodic_memory
       /\ \A i \in (Len(episodic_memory) + 1)..Len(episodic_memory') :
             \A j \in 1..Len(episodic_memory) : episodic_memory'[i].id > episodic_memory[j].id]_vars

\* two events of two handlers have been appended to a populated log, which
\* is still there, and set_agent_identity has run since
C2_Witness ==
    /\ Len(episodic_memory) = SeedGaps + 2
    /\ SubSeq(episodic_memory, 1, SeedGaps) = SeedLog(SeedGaps)
    /\ episodic_memory[SeedGaps + 1].event_type = "session_end"
    /\ episodic_memory[SeedGaps + 2].event_type = "action_outcome"
    /\ episodic_memory[SeedGaps + 2].id = SeedGaps + 2
    /\ ret.op = "set_agent_identity"

-----------------------------------------------------------------------------
(* Recording and listing knowledge gaps: SpecGaps *)

\* how many events a behaviour of SpecGaps appends
MaxGapEvents == 3

\* the severities gaps are recorded with, and the min_severity values
\* get_knowledge_gaps is asked for
Severities == {0, 5, 7, 10}

MinSeverities == {0, 5, 8}

InitGaps ==
    \E log \in {<<>>, SeedLog(SeedGaps)} : InitFrom([Empty EXCEPT !.episodic_memory = log])

NextGaps ==
    \/ Room(MaxGapEvents) /\ \E severity \in Severities :
          RecordKnowledgeGap("python", "the GIL", severity)
    \/ \E min_severity \in MinSeverities : GetKnowledgeGaps(min_severity)
    \/ Room(MaxGapEvents) /\ RecordActionOutcome(FixBug, "fixed", "fixed", 9, "")
    \/ Room(MaxGapEvents) /\ SessionEnd("")

SpecGaps == InitGaps /\ [][NextGaps]_vars

\* C4: once record_knowledge_gap has recorded a gap of severity s, every
\* list get_knowledge_gaps can return for a min_severity m holds that gap,
\* with its severity, if s >= m and does not hold it if m > s.
C4_InclusiveFilter ==
    ret.op = "record_knowledge_gap" =>
        \A m \in 0..10 :
            \A gaps \in get_knowledge_gaps(episodic_memory, m) :
                IF ret.severity >= m
                THEN \E i \in DOMAIN gaps :
                        gaps[i].id = ret.gap_id /\ gaps[i].severity = ret.severity
                ELSE \A i \in DOMAIN gaps : gaps[i].id # ret.gap_id

\* a gap of severity 0.5 has just been recorded in a log that already held
\* gaps of larger, of equal and of smaller severity
C4_Witness ==
    /\ ret.op = "record_knowledge_gap"
    /\ ret.severity = 5
    /\ ret.gap_id = SeedGaps + 2
    /\ episodic_memory[SeedGaps + 1].event_type = "knowledge_gap"
    /\ episodic_memory[SeedGaps + 1].significance = 5
    /\ episodic_memory[1].significance > 5

\* C5: the list get_knowledge_gaps returns never increases in severity from
\* one element to the next, holds only knowledge_gap events of severity at
\* least min_severity, and holds every such event of the log, once.
C5_SortedAndComplete ==
    ret.op = "get_knowledge_gaps" =>
        /\ \A i \in 1..(Len(ret.value) - 1) : ret.value[i].severity >= ret.value[i + 1].severity
        /\ \A i \in DOMAIN ret.value :
              \E e \in Range(episodic_memory) :
                  /\ e.id = ret.value[i].id
                  /\ e.event_type = "knowledge_gap"
                  /\ e.significance = ret.value[i].severity
                  /\ e.significance >= ret.min_severity
        /\ \A e \in Range(episodic_memory) :
              e.event_type = "knowledge_gap" /\ e.significance >= ret.min_severity
                  => \E i \in DOMAIN ret.value : ret.value[i].id = e.id
        /\ \A i, j \in DOMAIN ret.value : ret.value[i].id = ret.value[j].id => i = j

\* get_knowledge_gaps(0.5) has returned gaps of which two tie and two do
\* not, from a log that also holds a gap below 0.5 and an event of another
\* type above it
C5_Witness ==
    /\ ret.op = "get_knowledge_gaps"
    /\ ret.min_severity = 5
    /\ Len(ret.value) = SeedGaps + 1
    /\ \E i \in 1..(Len(ret.value) - 1) : ret.value[i].severity = ret.value[i + 1].severity
    /\ \E i \in 1..(Len(ret.value) - 1) : ret.value[i].severity > ret.value[i + 1].severity
    /\ \E e \in Range(episodic_memory) : e.event_type = "knowledge_gap" /\ e.significance = 0
    /\ \E e \in Range(episodic_memory) : e.event_type = "action_outcome" /\ e.significance = 9

-----------------------------------------------------------------------------
(* Working memory and get_current_context: SpecWorking *)

\* how many entries a behaviour of SpecWorking writes, and how far its
\* clock runs
MaxNewEntries == 2

MaxWorkingTime == 2

\* the writer of working_memory: one entry per context_key, expiring ttl
\* ticks from now
WriteWorkingMemory(key, priority, ttl) ==
    /\ working_memory' =
          {w \in working_memory : w.context_key # key}
          \cup {[context_key |-> key, content |-> "note", priority |-> priority,
                 expires_at |-> isoformat(now + ttl)]}
    /\ ret' = Environment
    /\ UNCHANGED <<connections, semantic_memory, episodic_memory, goals, tasks, now, last_set>>
    /\ call' = Observing(call, Store')

InitWorking ==
    \E wm \in {{}, SeedContext(SeedEntries)} : InitFrom([Empty EXCEPT !.working_memory = wm])

NextWorking ==
    \/ \E i \in 1..MaxNewEntries, priority \in {5, 15}, ttl \in {0, 2} :
          WriteWorkingMemory(<<"key", i>>, priority, ttl)
    \/ now < StartTime + MaxWorkingTime /\ Tick
    \/ GetCurrentContext

SpecWorking == InitWorking /\ [][NextWorking]_vars

\* the time a stored timestamp stands for
TimeOf(text) == 10 * text[1] + text[2]

\* the keys of a list of context dicts, and the entry stored under a key
KeysOf(list) == {list[i].key : i \in DOMAIN list}

EntryOf(key) == CHOOSE w \in working_memory : w.context_key = key

\* no entry that expired before the query is listed, and the list never
\* increases in priority
C8_NoExpiredAndSorted(context) ==
    /\ \A w \in working_memory :
          TimeOf(w.expires_at) < context.retrieved_at
              => w.context_key \notin KeysOf(context.active_context)
    /\ \A i \in 1..(Len(context.active_context) - 1) :
          EntryOf(context.active_context[i].key).priority
              >= EntryOf(context.active_context[i + 1].key).priority

\* C8 as claimed: after get_current_context, no entry whose expires_at is
\* before the query time is in active_context, every entry whose expires_at
\* is after it is, and the list is ordered by priority descending.
C8_EveryLiveEntryListed ==
    ret.op = "get_current_context" =>
        /\ C8_NoExpiredAndSorted(ret)
        /\ \A w \in working_memory :
              TimeOf(w.expires_at) > ret.retrieved_at
                  => w.context_key \in KeysOf(ret.active_context)

\* C8 amended: after get_current_context, no entry whose expires_at is
\* before the query time is in active_context; an entry whose expires_at is
\* after it is in the list unless the list is full, holding 10 entries of
\* priority at least that entry's; and the list is ordered by priority
\* descending.
C8_LiveEntriesUpToLimit ==
    ret.op = "get_current_context" =>
        /\ C8_NoExpiredAndSorted(ret)
        /\ \A w \in working_memory :
              TimeOf(w.expires_at) > ret.retrieved_at
              /\ w.context_key \notin KeysOf(ret.active_context)
                  => /\ Len(ret.active_context) = ContextLimit
                     /\ \A k \in KeysOf(ret.active_context) : EntryOf(k).priority >= w.priority

\* get_current_context has returned a full list and left out a live entry
\* of a lower priority, while the store holds an entry of the highest
\* priority that has expired
C8_Witness ==
    /\ ret.op = "get_current_context"
    /\ ret.retrieved_at = StartTime + 1
    /\ Len(ret.active_context) = ContextLimit
    /\ <<"key", 1>> \in KeysOf(ret.active_context)
    /\ <<"key", 2>> \notin KeysOf(ret.active_context)
    /\ \E w \in working_memory :
          w.context_key = <<"key", 2>> /\ TimeOf(w.expires_at) > ret.retrieved_at
    /\ \E w \in working_memory : TimeOf(w.expires_at) < ret.retrieved_at /\ w.priority = 40

-----------------------------------------------------------------------------
(* The episodic log and get_current_context: SpecEvents *)

\* how many events a behaviour of SpecEvents appends, and how far its clock
\* runs
MaxSignificantEvents == 3

MaxEventsTime == 1

InitEvents ==
    \E log \in {<<>>, SeedLog(SeedEvents)} : InitFrom([Empty EXCEPT !.episodic_memory = log])

NextEvents ==
    \/ Room(MaxSignificantEvents) /\ \E severity \in {6, 7} :
          RecordKnowledgeGap("python", "the GIL", severity)
    \/ Room(MaxSignificantEvents) /\ \E success_score \in {2, 9} :
          RecordActionOutcome(FixBug, "fixed", "fixed", success_score, "")
    \/ Room(MaxSignificantEvents) /\ RecordMetacognitiveState(8, 2, 9, "")
    \/ Room(MaxSignificantEvents) /\ SessionStart
    \/ Room(MaxSignificantEvents) /\ SessionEnd("done")
    \/ now < StartTime + MaxEventsTime /\ Tick
    \/ GetCurrentContext

SpecEvents == InitEvents /\ [][NextEvents]_vars

\* what C9 says of one value of get_current_context
C9_Holds(context) ==
    /\ Len(context.recent_significant_events) <= EventsLimit
    /\ DOMAIN context.recent_rows = DOMAIN context.recent_significant_events
    /\ \A i \in DOMAIN context.recent_rows :
          /\ context.recent_rows[i] \in Range(episodic_memory)
          /\ context.recent_significant_events[i] = EventDict(context.recent_rows[i])
          /\ context.recent_rows[i].significance > SignificanceThreshold
          /\ context.recent_significant_events[i].type
                \notin {"metacognitive_state", "session_start", "session_end"}
    /\ \A i \in 1..(Len(context.recent_rows) - 1) :
          context.recent_rows[i].created_at >= context.recent_rows[i + 1].created_at

\* C9: the recent_significant_events of get_current_context are at most 5
\* events of the log, each of significance above 0.6, the newest first, and
\* none is a metacognitive_state, session_start or session_end event.
C9_OnlySignificantEvents ==
    ret.op = "get_current_context" => C9_Holds(ret)

\* get_current_context has returned 5 events, the newest of them written
\* in this behaviour, from a log that holds more significant events than
\* that and a metacognitive_state event
C9_Witness ==
    /\ ret.op = "get_current_context"
    /\ Len(ret.recent_significant_events) = EventsLimit
    /\ ret.recent_rows[1].created_at >= StartTime
    /\ Cardinality(SignificantRows(episodic_memory)) > EventsLimit
    /\ \E e \in Range(episodic_memory) : e.event_type = "metacognitive_state"

-----------------------------------------------------------------------------
(* Goals, tasks and get_current_context: SpecTasks *)

\* how many tasks a behaviour of SpecTasks adds
MaxNewTasks == 2

\* the tasks added in this behaviour
NewTasks(ts) == {t \in ts : t.title = "new"}

\* the id the storage gives a new task: one more than the largest
NextTaskId(ts) == IF ts = {} THEN 1 ELSE 1 + (CHOOSE i \in {t.id : t \in ts} : \A t \in ts : t.id <= i)

\* the goal tracker adds a task; nothing checks that its goal exists
AddTask(priority, status, goal_id) ==
    /\ tasks' = tasks \cup {[id |-> NextTaskId(tasks), title |-> "new",
                             priority |-> priority, status |-> status, goal_id |-> goal_id]}
    /\ ret' = Environment
    /\ UNCHANGED <<connections, semantic_memory, episodic_memory, goals, working_memory, now, last_set>>
    /\ call' = Observing(call, Store')

\* the goal tracker removes a goal and leaves its tasks
RemoveGoal(goal_id) ==
    /\ \E g \in goals : g.id = goal_id
    /\ goals' = {g \in goals : g.id # goal_id}
    /\ ret' = Environment
    /\ UNCHANGED <<connections, semantic_memory, episodic_memory, tasks, working_memory, now, last_set>>
    /\ call' = Observing(call, Store')

InitTasks ==
    \E store \in {Empty, Populated} :
        InitFrom([Empty EXCEPT !.goals = store.goals, !.tasks = store.tasks])

NextTasks ==
    \/ Cardinality(NewTasks(tasks)) < MaxNewTasks
       /\ \E priority \in {5, 30}, status \in {"pending", "in_progress", "done"}, goal_id \in {1, 3} :
             AddTask(priority, status, goal_id)
    \/ \E goal_id \in {1, 2} : RemoveGoal(goal_id)
    \/ GetCurrentContext

SpecTasks == InitTasks /\ [][NextTasks]_vars

\* the tasks of a status whose goal exists
ValidTasks(status) == {t \in tasks : t.status = status /\ \E g \in goals : g.id = t.goal_id}

\* the dict d is that of a task of this status, with its goal's name
OfValidTask(d, status) ==
    \E t \in ValidTasks(status) :
        /\ t.id = d.id /\ t.title = d.title
        /\ \E g \in goals : g.id = t.goal_id /\ g.name = d.goal

\* C10: whatever tasks lack their goal, get_current_context returns its
\* five collections; every pending and in-progress task it lists is one
\* whose goal exists, with that goal's name; a pending task whose goal
\* exists is left out only of a full list of 10 tasks of priority at least
\* its own, and an in-progress one only of a full list of 5.
C10_DanglingTasksLeftOut ==
    /\ get_current_context(goals, tasks, episodic_memory, working_memory, now) # {}
    /\ ret.op = "get_current_context" =>
          /\ {"active_goals", "pending_tasks", "in_progress_tasks", "recent_significant_events",
              "active_context"} \subseteq DOMAIN ret
          /\ \A i \in DOMAIN ret.pending_tasks : OfValidTask(ret.pending_tasks[i], "pending")
          /\ \A d \in ret.in_progress_tasks : OfValidTask(d, "in_progress")
          /\ \A t \in ValidTasks("pending") :
                (\A i \in DOMAIN ret.pending_tasks : ret.pending_tasks[i].id # t.id)
                    => /\ Len(ret.pending_tasks) = PendingLimit
                       /\ \A i \in DOMAIN ret.pending_tasks :
                             ret.pending_tasks[i].priority >= t.priority
          /\ \A t \in ValidTasks("in_progress") :
                (\A d \in ret.in_progress_tasks : d.id # t.id)
                    => Cardinality(ret.in_progress_tasks) = InProgressLimit

\* get_current_context has returned a full list of pending tasks, all with
\* their goal's name, from a store that holds a pending task of the highest
\* priority whose goal does not exist
C10_Witness ==
    /\ ret.op = "get_current_context"
    /\ \E t \in tasks :
          /\ t.status = "pending" /\ t.priority = 30
          /\ ~(\E g \in goals : g.id = t.goal_id)
    /\ Len(ret.pending_tasks) = SeedPending + 1
    /\ \A i \in DOMAIN ret.pending_tasks : ret.pending_tasks[i].goal = "ship"
    /\ ret.pending_tasks[Len(ret.pending_tasks)].priority = 5
    /\ Cardinality(ret.in_progress_tasks) = SeedInProgress

-----------------------------------------------------------------------------
(* Recording action outcomes and finding similar ones: SpecSimilar *)

\* how many outcomes a populated log of SpecSimilar starts with, how many a
\* behaviour records, and how far its clock runs
SeedOutcomes == 49

MaxNewOutcomes == 2

MaxSimilarTime == 1

\* a log of n outcomes recorded one after the other, the first two within
\* one reading of the clock, the others at later readings, all before
\* StartTime; the first is the only one whose action holds a "b"
SeedOutcomeLog(n) ==
    [i \in 1..n |->
        [id |-> i, event_type |-> "action_outcome",
         content |-> json_dumps([action |-> IF i = 1 THEN <<"b">> ELSE <<"c">>,
                                 expected |-> "seed",
                                 actual |-> IF i = 1 THEN "first" ELSE "seed",
                                 success_score |-> 9, context |-> "",
                                 timestamp |-> IF i <= 2 THEN 2 - n ELSE i - n]),
         significance |-> 9,
         created_at |-> IF i <= 2 THEN 2 - n ELSE i - n]]

\* the actions recorded and the descriptions searched for: "a c c c c" has
\* five keywords, of which an action holds at most one (relevance 0.2)
Actions == {<<"a">>, <<"A", "b">>}

Descriptions ==
    {<<>>, <<"a">>, <<"B", " ", "a">>, <<"a", " ", "c", " ", "c", " ", "c", " ", "c">>}

Limits == {-1, 0, 1, 5}

InitSimilar ==
    \E log \in {<<>>, SeedOutcomeLog(SeedOutcomes)} :
        InitFrom([Empty EXCEPT !.episodic_memory = log])

NextSimilar ==
    \/ Room(MaxNewOutcomes) /\ \E action \in Actions :
          RecordActionOutcome(action, "ok", "new", 9, "")
    \/ \E action_description \in Descriptions, limit \in Limits :
          GetSimilarPastActions(action_description, limit)
    \/ now < StartTime + MaxSimilarTime /\ Tick

SpecSimilar == InitSimilar /\ [][NextSimilar]_vars

\* the number of the keywords of a description that an outcome's lowercased
\* action contains, and whether that is more than 0.2 of them
HitsOf(row, action_description) ==
    Hits(split(lower(action_description)), lower(json_loads(row.content).action))

Qualifies(row, action_description) ==
    10 * HitsOf(row, action_description) > 2 * Max(Len(split(lower(action_description))), 1)

\* C11: every list find_similar returns holds only entries of relevance
\* above 0.2, in non-increasing relevance order, at most `limit` of them
\* (none when limit is below 0), and every qualifying outcome of a relevance
\* above the lowest one returned is in it.
C11_TopLimit ==
    ret.op = "get_similar_past_actions" =>
        LET found == ret.value
            den   == Max(Len(split(lower(ret.action_description))), 1)
            cands == {r \in OutcomeRows(episodic_memory) : Qualifies(r, ret.action_description)}
        IN  /\ \A i \in DOMAIN found :
                  /\ found[i].relevance.den = den
                  /\ 10 * found[i].relevance.num > 2 * den
            /\ \A i, j \in DOMAIN found : i < j => found[i].relevance.num >= found[j].relevance.num
            /\ Len(found) <= Max(ret.limit, 0)
            /\ \A i \in DOMAIN found :
                  \A v \in (found[i].relevance.num + 1)..den :
                      Cardinality({r \in cands : HitsOf(r, ret.action_description) = v})
                          = Cardinality({j \in DOMAIN found : found[j].relevance.num = v})

\* the outcomes of the log that fewer than 50 outcomes were recorded after
MostRecent(log) ==
    {log[i] : i \in {i \in DOMAIN log :
        /\ log[i].event_type = "action_outcome"
        /\ Cardinality({j \in DOMAIN log : j > i /\ log[j].event_type = "action_outcome"}) < 50}}

\* C12: every entry find_similar returns is of one of the 50 outcomes
\* recorded last, and each of those that qualifies is returned when `limit`
\* leaves room for all of them.
C12_FiftyMostRecent ==
    ret.op = "get_similar_past_actions" =>
        LET keywords   == split(lower(ret.action_description))
            recent     == MostRecent(episodic_memory)
            qualifying == {r \in recent : Qualifies(r, ret.action_description)}
        IN  /\ \A i \in DOMAIN ret.value :
                  \E r \in recent : ret.value[i] = ScoreDict(r, keywords)
            /\ Cardinality(qualifying) <= ret.limit =>
                  \A r \in qualifying : ScoreDict(r, keywords) \in Range(ret.value)

-----------------------------------------------------------------------------
(* Recording action outcomes and what the context shows of them: SpecOutcomes *)

\* how many outcomes a behaviour of SpecOutcomes records
MaxOutcomes == 2

\* the success scores recorded, in tenths
Scores == {0, 1, 3, 4, 5, 7, 8, 9, 10}

InitOutcomes == InitFrom(Empty)

NextOutcomes ==
    \/ Room(MaxOutcomes) /\ \E success_score \in Scores :
          RecordActionOutcome(FixBug, "fixed", "fixed", success_score, "")
    \/ GetCurrentContext
    \/ GetSimilarPastActions(FixBug, 5)

SpecOutcomes == InitOutcomes /\ [][NextOutcomes]_vars

\* the success_score an action_outcome event was recorded with
ScoreOf(event) == json_loads(event.content).success_score

\* C13: the significance stored with an outcome is symmetric around the
\* middle of the success_score range: two outcomes recorded with the scores
\* s and 1 - s have the same significance.
C13_SymmetricSignificance ==
    \A i, j \in DOMAIN episodic_memory :
        /\ episodic_memory[i].event_type = "action_outcome"
        /\ episodic_memory[j].event_type = "action_outcome"
        /\ ScoreOf(episodic_memory[i]) + ScoreOf(episodic_memory[j]) = 10
        => episodic_memory[i].significance = episodic_memory[j].significance

\* C14: record_outcome appends exactly one action_outcome event; it returns
\* the successful-pattern hint iff success_score >= 0.8, the failure-pattern
\* hint iff success_score <= 0.3, and no hint for a score between the two.
C14_HintThresholds ==
    [][ret'.op = "record_action_outcome" =>
          LET hint == ret'.learning_recommendation
              good == "Consider adding this to procedural memory as a successful pattern."
              bad  == "Consider recording this failure pattern to avoid in future."
          IN  /\ Len(episodic_memory') = Len(episodic_memory) + 1
              /\ SubSeq(episodic_memory', 1, Len(episodic_memory)) = episodic_memory
              /\ episodic_memory'[Len(episodic_memory')].event_type = "action_outcome"
              /\ ScoreOf(episodic_memory'[Len(episodic_memory')]) = ret'.success_score
              /\ hint = good <=> ret'.success_score >= 8
              /\ hint = bad <=> ret'.success_score <= 3
              /\ (ret'.success_score > 3 /\ ret'.success_score < 8) => hint = ""
              /\ hint \in {good, bad, ""}]_vars

\* an outcome of score 0.8 has been recorded, and then one of score 0.3,
\* which got the failure-pattern hint
C14_Witness ==
    /\ ret.op = "record_action_outcome"
    /\ ret.success_score = 3
    /\ ret.learning_recommendation = "Consider recording this failure pattern to avoid in future."
    /\ Len(episodic_memory) = 2
    /\ ScoreOf(episodic_memory[1]) = 8
    /\ ScoreOf(episodic_memory[2]) = 3
    /\ ret.outcome_id = episodic_memory[2].id

-----------------------------------------------------------------------------
(* Recording the metacognitive state: SpecMetacognition *)

\* how many states a behaviour of SpecMetacognition records
MaxMetacognitiveStates == 1

\* the confidence, load and quality recorded, in tenths
Levels == {2, 3, 4, 5, 8, 9}

InitMetacognition == InitFrom(Empty)

NextMetacognition ==
    \/ Room(MaxMetacognitiveStates) /\
          \E confidence \in Levels, cognitive_load \in Levels, reasoning_quality \in Levels :
              RecordMetacognitiveState(confidence, cognitive_load, reasoning_quality, "")
    \/ GetCurrentContext

SpecMetacognition == InitMetacognition /\ [][NextMetacognition]_vars

\* C15: record_state appends exactly one metacognitive_state event and
\* returns recorded = true with the clarifying-questions warning iff
\* confidence < 0.4, the decompose-task warning iff cognitive_load > 0.8 and
\* the deliberate-reasoning warning iff reasoning_quality < 0.5, and no
\* other warning.
C15_IndependentWarnings ==
    [][ret'.op = "record_metacognitive_state" =>
          LET state    == json_loads(episodic_memory'[Len(episodic_memory')].content)
              warnings == {ret'.warnings[i] : i \in DOMAIN ret'.warnings}
              clarify  == "Low confidence - consider asking clarifying questions"
              break    == "High cognitive load - consider breaking task into smaller steps"
              think    == "Reasoning quality concern - consider using sequential thinking"
          IN  /\ Len(episodic_memory') = Len(episodic_memory) + 1
              /\ SubSeq(episodic_memory', 1, Len(episodic_memory)) = episodic_memory
              /\ episodic_memory'[Len(episodic_memory')].event_type = "metacognitive_state"
              /\ ret'.recorded = TRUE
              /\ clarify \in warnings <=> state.confidence < 4
              /\ break \in warnings <=> state.cognitive_load > 8
              /\ think \in warnings <=> state.reasoning_quality < 5
              /\ warnings \subseteq {clarify, break, think}
              /\ Len(ret'.warnings) = Cardinality(warnings)
              /\ (state.confidence = 2 /\ state.cognitive_load = 9 /\ state.reasoning_quality = 3)
                    => Len(ret'.warnings) = 3
              /\ (state.confidence = 8 /\ state.cognitive_load = 2 /\ state.reasoning_quality = 9)
                    => ret'.warnings = <<>>]_vars

\* the state (0.2, 0.9, 0.3) has been recorded and drew the three warnings
C15_Witness ==
    /\ ret.op = "record_metacognitive_state"
    /\ Len(ret.warnings) = 3
    /\ Len(episodic_memory) = 1
    /\ json_loads(episodic_memory[1].content).confidence = 2
    /\ json_loads(episodic_memory[1].content).cognitive_load = 9
    /\ json_loads(episodic_memory[1].content).reasoning_quality = 3

-----------------------------------------------------------------------------
(* Calls whose statements can raise: SpecFailures *)

\* how many events a behaviour of SpecFailures appends, and how many
\* connections it has open at most
MaxFailureEvents == 1

MaxOpenConnections == 2

NameAndPurpose == [name |-> "Ada", purpose |-> "help", capabilities |-> None,
                   limitations |-> None, personality |-> None]

InitFailures == \E store \in {Empty, Populated} : InitFrom(store)

NextFailures ==
    \/ connections < MaxOpenConnections /\
          \/ \E args \in {JustName, NameAndPurpose} : BeginCall("set_agent_identity", args)
          \/ Room(MaxFailureEvents) /\ BeginCall("session_end", "done")
          \/ Room(MaxFailureEvents) /\ BeginCall("session_start", None)
          \/ BeginCall("get_knowledge_gaps", BriefingMinSeverity)
    \/ GetDb
    \/ Execute
    \/ Select
    \/ JsonLoads
    \/ Commit
    \/ Close
    \/ Return
    \/ Raise
    \/ Finalize

SpecFailures == InitFailures /\ [][NextFailures]_vars

\* the running call ends in this step because its statement raises
Raises == call # Idle /\ call' = Idle /\ Statement.do # "return"

\* C16: when a statement of set_identity or of an event-appending handler
\* raises before the commit, the caller gets the failure and the five tables
\* are what they were when the call began; while a call has not committed,
\* nothing of its writes is in the tables.
C16_NoPartialCommit ==
    [][/\ Raises => /\ ret'.op = call.op /\ ret'.error = Statement.do
                    /\ Store' = call.before
       /\ (call # Idle /\ \A k \in 1..(call.pc - 1) : call.program[k].do # "commit")
             => Store = call.before]_vars

\* the commit of set_agent_identity(name, purpose) has raised after its two
\* upserts were executed, on a store that holds other facts, and the facts
\* are the ones it held
C16_Witness ==
    /\ ret.op = "set_agent_identity"
    /\ ret.error = "commit"
    /\ ret.pc = 4
    /\ semantic_memory = SeedFacts
    /\ \A r \in semantic_memory : r.definition # "help"
    /\ call = Idle

\* C17: between calls no connection is open: a call has closed the
\* connection it opened when it ends, however it ends.
C17_NoOpenConnection == call = Idle => connections = 0

\* C18: a call of session_start in which a read fails, the database being
\* reachable, still appends its session_start event; one that cannot open
\* the database appends nothing; one that returns has appended the event.
C18_MarkerDespiteReadFailure ==
    [][(call # Idle /\ call.op = "session_start" /\ call' = Idle) =>
          LET log    == call.before.episodic_memory
              marked == /\ Len(episodic_memory') = Len(log) + 1
                        /\ SubSeq(episodic_memory', 1, Len(log)) = log
                        /\ episodic_memory'[Len(episodic_memory')].event_type = "session_start"
          IN  /\ Statement.do \in {"select", "json.loads", "return"} => marked
              /\ Statement.do = "get_db" => episodic_memory' = log]_vars

-----------------------------------------------------------------------------
(* get_current_context among the other writers of the database: SpecSnapshot *)

\* how many tasks the goal tracker adds in a behaviour of SpecSnapshot
MaxSnapshotTasks == 1

InitSnapshot == \E store \in {Empty, Populated} : InitFrom(store)

\* the goal tracker and the writer of working_memory are other users of the
\* database file: they commit whenever they do, also between two statements
\* of a running call
NextSnapshot ==
    \/ BeginCall("get_current_context", None)
    \/ GetDb
    \/ Select
    \/ Close
    \/ Return
    \/ Cardinality(NewTasks(tasks)) < MaxSnapshotTasks /\ AddTask(30, "pending", 1)
    \/ \E g \in goals : RemoveGoal(g.id)
    \/ WriteWorkingMemory(<<"key", 1>>, 15, 2)

SpecSnapshot == InitSnapshot /\ [][NextSnapshot]_vars

\* C19: what a call of get_current_context returns is what it would have
\* read from one state of the five tables that the database was in during
\* the call.
C19_SingleSnapshot ==
    [][(call # Idle /\ call.op = "get_current_context" /\ Statement.do = "return"
        /\ call' = Idle) =>
          \E db \in call.seen :
              ret' \in get_current_context(db.goals, db.tasks, db.episodic_memory,
                                           db.working_memory, now)]_vars


=============================================================================
